---- MODULE Spec2Model ----
(***************************************************************************)
(* Model of blogicum/blog/views.py: the query builder, the four page views *)
(* and the six mutation views of the blog, over a small database of posts, *)
(* comments and categories, with a clock that only moves forward.          *)
(***************************************************************************)
EXTENDS Integers, Sequences, FiniteSets, TLC

\* ---------------------------------------------------------------- bounds
MaxRows == 3
MaxTime == 1
MaxRead == 2
MaxBulk == 25
MaxPage == 4

\* ------------------------------------------------------------- constants
paginate_by == 10

Users == {"u1", "u2"}
Anonymous == "anon"
Viewers == Users \cup {Anonymous}
Usernames == Users \cup {"ghost"}
Categories == {"c1", "c2"}
Slugs == Categories \cup {"nocat"}
Texts == {"t1", "t2"}
Methods == {"GET", "POST"}

\* An optional value is a sequence of length 0 (absent) or 1 (given).
Opt(S) == {<<>>} \cup {<<x>> : x \in S}

VARIABLES posts, comments, categories, now, next_post_id, next_comment_id, resp

vars == <<posts, comments, categories, now, next_post_id, next_comment_id, resp>>
db == <<posts, comments, categories, next_post_id, next_comment_id>>

is_authenticated(user) == user \in Users

\* ------------------------------------------------------------- responses
NoRedirect == [name |-> "none", post_id |-> 0, username |-> ""]
RedirectLogin == [name |-> "login", post_id |-> 0, username |-> ""]
RedirectIndex == [name |-> "blog:index", post_id |-> 0, username |-> ""]
RedirectPostDetail(post_id) ==
    [name |-> "blog:post_detail", post_id |-> post_id, username |-> ""]
RedirectProfile(username) ==
    [name |-> "blog:profile", post_id |-> 0, username |-> username]

Request(view, user, post_id, comment_id, name, page) ==
    [view |-> view, user |-> user, post_id |-> post_id,
     comment_id |-> comment_id, name |-> name, page |-> page]

Response(request, status, redirect) ==
    [request |-> request, status |-> status, redirect |-> redirect,
     object |-> 0, object_list |-> <<>>, paginated |-> FALSE,
     number |-> 0, num_pages |-> 0]

NoResponse == Response(Request("none", Anonymous, 0, 0, "", <<>>), "none", NoRedirect)

\* ------------------------------------------------------------------ ORM
\* Count('comments'): the number of comments whose post is p.
comment_count(p) == Cardinality({c \in DOMAIN comments : comments[c].post = p})

\* Post._meta.ordering: newest pub_date first, rows of equal date by id.
PostOrdering(a, b) ==
    \/ posts[a].pub_date > posts[b].pub_date
    \/ posts[a].pub_date = posts[b].pub_date /\ a < b

\* queryset.order_by(*Post._meta.ordering): the rows of S, sorted.  Primary
\* keys run from 1 to next_post_id - 1.
order_by(S) ==
    SortSeq(SelectSeq([i \in 1..(next_post_id - 1) |-> i], LAMBDA i : i \in S),
            PostOrdering)

\* Faulty variants of published_filter: the category's flag is not looked
\* at; a post dated exactly now is left out.
published_filter_without_category(p) ==
    /\ posts[p].is_published = TRUE
    /\ posts[p].pub_date <= now

published_filter_before_now(p) ==
    /\ posts[p].is_published = TRUE
    /\ categories[posts[p].category].is_published = TRUE
    /\ posts[p].pub_date < now

\* The filter of get_annotated_posts(published_only=True).
published_filter(p) ==
    /\ posts[p].is_published = TRUE
    /\ categories[posts[p].category].is_published = TRUE
    /\ posts[p].pub_date <= now

\* get_annotated_posts: a sequence of annotated rows, in Post's ordering.
get_annotated_posts(queryset, published_only) ==
    LET filtered == IF published_only
                    THEN {p \in queryset : published_filter(p)}
                    ELSE queryset
        ordered == order_by(filtered)
    IN  [i \in 1..Len(ordered) |->
            [id |-> ordered[i], comment_count |-> comment_count(ordered[i])]]

\* ------------------------------------------------------------ Paginator
Paginator_num_pages(object_list, per_page) ==
    IF Len(object_list) = 0 THEN 1
    ELSE (Len(object_list) + per_page - 1) \div per_page

Paginator_valid(object_list, per_page, number) ==
    number >= 1 /\ number <= Paginator_num_pages(object_list, per_page)

\* Faulty variant of Paginator_page: the slice starts one page too far.
Paginator_page_from_next(object_list, per_page, number) ==
    LET bottom == number * per_page
        top == IF bottom + per_page >= Len(object_list)
               THEN Len(object_list) ELSE bottom + per_page
    IN  SubSeq(object_list, bottom + 1, top)

\* Paginator.page(number): object_list[bottom:top]
Paginator_page(object_list, per_page, number) ==
    LET bottom == (number - 1) * per_page
        top == IF bottom + per_page >= Len(object_list)
               THEN Len(object_list) ELSE bottom + per_page
    IN  SubSeq(object_list, bottom + 1, top)

\* Paginator.get_page(number): no number is page 1, out of range is the last.
Paginator_get_page_number(object_list, per_page, page) ==
    IF page = <<>> THEN 1
    ELSE IF Paginator_valid(object_list, per_page, page[1]) THEN page[1]
    ELSE Paginator_num_pages(object_list, per_page)

PageResponse(request, object_list, per_page, number) ==
    [Response(request, "200 OK", NoRedirect) EXCEPT
        !.object_list = Paginator_page(object_list, per_page, number),
        !.paginated = TRUE,
        !.number = number,
        !.num_pages = Paginator_num_pages(object_list, per_page)]

NotFound(request) == Response(request, "404 Not Found", NoRedirect)

\* ----------------------------------------------------------- page views
\* PostsListView: ListView with paginate_by; an invalid page number is 404.
PostsListView_get(user, page) ==
    LET request == Request("index", user, 0, 0, "", page)
        queryset == get_annotated_posts(DOMAIN posts, TRUE)
        number == IF page = <<>> THEN 1 ELSE page[1]
    IN  IF Paginator_valid(queryset, paginate_by, number)
        THEN PageResponse(request, queryset, paginate_by, number)
        ELSE NotFound(request)

\* Faulty variant of PostDetailView_is_author: any logged-in user passes.
PostDetailView_is_author_any_user(user, post) == is_authenticated(user)

\* PostDetailView.get_object: the author sees every post of theirs ...
PostDetailView_is_author(user, post) ==
    is_authenticated(user) /\ user = post.author

\* ... anyone else only a published one.
PostDetailView_is_public(post) ==
    /\ post.is_published
    /\ categories[post.category].is_published
    /\ post.pub_date <= now

PostDetailView_get(user, post_id) ==
    LET request == Request("post_detail", user, post_id, 0, "", <<>>)
    IN  IF post_id \notin DOMAIN posts THEN NotFound(request)
        ELSE IF PostDetailView_is_author(user, posts[post_id])
        THEN [Response(request, "200 OK", NoRedirect) EXCEPT !.object = post_id]
        ELSE IF PostDetailView_is_public(posts[post_id])
        THEN [Response(request, "200 OK", NoRedirect) EXCEPT !.object = post_id]
        ELSE NotFound(request)

\* Faulty variant of category_lookup: the category's flag is not looked at.
category_lookup_by_slug_only(category_slug) ==
    category_slug \in DOMAIN categories

\* category_posts: get_object_or_404(Category, slug=..., is_published=True)
category_lookup(category_slug) ==
    /\ category_slug \in DOMAIN categories
    /\ categories[category_slug].is_published = TRUE

category_posts_get(user, category_slug, page) ==
    LET request == Request("category_posts", user, 0, 0, category_slug, page)
    IN  IF ~category_lookup(category_slug)
        THEN NotFound(request)
        ELSE LET queryset == get_annotated_posts(
                     {p \in DOMAIN posts : posts[p].category = category_slug}, TRUE)
             IN  PageResponse(request, queryset, 10,
                     Paginator_get_page_number(queryset, 10, page))

\* Faulty variant of ProfileView_is_owner: any logged-in user passes.
ProfileView_is_owner_any_user(user, username) == is_authenticated(user)

\* ProfileView.get_context_data: is the viewer the profile's user?
ProfileView_is_owner(user, username) ==
    is_authenticated(user) /\ user = username

ProfileView_get(user, username, page) ==
    LET request == Request("profile", user, 0, 0, username, page)
    IN  IF username \notin Users THEN NotFound(request)
        ELSE LET authored == {p \in DOMAIN posts : posts[p].author = username}
                 queryset ==
                     IF ProfileView_is_owner(user, username)
                     THEN get_annotated_posts(authored, FALSE)
                     ELSE get_annotated_posts(authored, TRUE)
             IN  PageResponse(request, queryset, 10,
                     Paginator_get_page_number(queryset, 10, page))

PostsListView(user, page) ==
    /\ resp' = PostsListView_get(user, page)
    /\ UNCHANGED <<db, now>>

PostDetailView(user, post_id) ==
    /\ resp' = PostDetailView_get(user, post_id)
    /\ UNCHANGED <<db, now>>

category_posts(user, category_slug, page) ==
    /\ resp' = category_posts_get(user, category_slug, page)
    /\ UNCHANGED <<db, now>>

ProfileView(user, username, page) ==
    /\ resp' = ProfileView_get(user, username, page)
    /\ UNCHANGED <<db, now>>

\* timezone.now() only moves forward.
Tick ==
    /\ now < MaxTime
    /\ now' = now + 1
    /\ UNCHANGED <<db, resp>>

\* ------------------------------------------------------- mutation views
\* Submitted form data that validates.  The author field stands for whatever
\* the client sends along; no view reads it.  A request to a form view
\* carries Opt(form): <<>> is a GET, or a POST whose data does not validate
\* (both leave the database alone and give the same response).
PostForms ==
    [author : Users, category : {"c1"}, is_published : BOOLEAN,
     pub_date : Opt({0})]
CommentForms == [author : Users, text : Texts]
\* Edit forms come filled in from the row: the date is always there.
PostEditForms == {f \in PostForms : f.author = "u1" /\ f.pub_date /= <<>>}
CommentEditForms == {f \in CommentForms : f.author = "u1"}

\* Rows inserted so far (primary keys are never reused).
RowsCreated == (next_post_id - 1) + (next_comment_id - 1)

Insert(table, id, row) ==
    [x \in DOMAIN table \cup {id} |-> IF x = id THEN row ELSE table[x]]
Remove(table, ids) == [x \in DOMAIN table \ ids |-> table[x]]

\* ModelForm.save() of PostForm / CommentForm on an existing row.
PostForm_save(instance, form) ==
    [instance EXCEPT !.category = form.category,
                     !.is_published = form.is_published,
                     !.pub_date = form.pub_date[1]]
CommentForm_save(instance, form) == [instance EXCEPT !.text = form.text]

\* Deleting a post takes the comments on it along.
CommentsOf(post_id) == {c \in DOMAIN comments : comments[c].post = post_id}

\* Faulty variant of PostCreateView_form_valid: the author is whoever the
\* submitted data names.
PostCreateView_form_valid_author_from_form(user, form) ==
    [author |-> form.author,
     category |-> form.category,
     is_published |-> form.is_published,
     pub_date |-> IF form.pub_date = <<>> THEN now ELSE form.pub_date[1]]

\* PostCreateView.form_valid
PostCreateView_form_valid(user, form) ==
    [author |-> user,
     category |-> form.category,
     is_published |-> form.is_published,
     pub_date |-> IF form.pub_date = <<>> THEN now ELSE form.pub_date[1]]

PostCreateView(user) ==
    LET request == Request("create_post", user, 0, 0, "", <<>>)
    IN  IF ~is_authenticated(user)
        THEN /\ resp' = Response(request, "302 Found", RedirectLogin)
             /\ UNCHANGED <<db, now>>
        ELSE \E data \in Opt(PostForms) :
            IF data = <<>>
            THEN /\ resp' = Response(request, "200 OK", NoRedirect)
                 /\ UNCHANGED <<db, now>>
            ELSE /\ RowsCreated < MaxRows
                 /\ posts' = Insert(posts, next_post_id,
                                    PostCreateView_form_valid(user, data[1]))
                 /\ next_post_id' = next_post_id + 1
                 /\ resp' = Response(request, "302 Found", RedirectProfile(user))
                 /\ UNCHANGED <<comments, categories, next_comment_id, now>>

\* Faulty variant of EditMixin_test_func: any logged-in user passes.
EditMixin_test_func_any_user(user, object) == is_authenticated(user)

\* EditMixin.test_func
EditMixin_test_func(user, object) == user = object.author

\* EditMixin.handle_no_permission
EditMixin_handle_no_permission(request) ==
    Response(request, "302 Found", RedirectPostDetail(request.post_id))

PostUpdateView(user, post_id, forms) ==
    LET request == Request("edit_post", user, post_id, 0, "", <<>>)
    IN  IF ~is_authenticated(user)
        THEN /\ resp' = EditMixin_handle_no_permission(request)
             /\ UNCHANGED <<db, now>>
        ELSE IF post_id \notin DOMAIN posts
        THEN /\ resp' = NotFound(request)
             /\ UNCHANGED <<db, now>>
        ELSE IF ~EditMixin_test_func(user, posts[post_id])
        THEN /\ resp' = EditMixin_handle_no_permission(request)
             /\ UNCHANGED <<db, now>>
        ELSE \E data \in Opt(forms) :
            IF data = <<>>
            THEN /\ resp' = Response(request, "200 OK", NoRedirect)
                 /\ UNCHANGED <<db, now>>
            ELSE /\ posts' = [posts EXCEPT ![post_id] = PostForm_save(@, data[1])]
                 /\ resp' = Response(request, "302 Found", RedirectIndex)
                 /\ UNCHANGED <<comments, categories, next_post_id,
                                next_comment_id, now>>

PostDeleteView(user, post_id) ==
    LET request == Request("delete_post", user, post_id, 0, "", <<>>)
    IN  IF ~is_authenticated(user)
        THEN /\ resp' = EditMixin_handle_no_permission(request)
             /\ UNCHANGED <<db, now>>
        ELSE IF post_id \notin DOMAIN posts
        THEN /\ resp' = NotFound(request)
             /\ UNCHANGED <<db, now>>
        ELSE IF ~EditMixin_test_func(user, posts[post_id])
        THEN /\ resp' = EditMixin_handle_no_permission(request)
             /\ UNCHANGED <<db, now>>
        ELSE \E method \in Methods :
            IF method = "GET"
            THEN /\ resp' = Response(request, "200 OK", NoRedirect)
                 /\ UNCHANGED <<db, now>>
            ELSE /\ posts' = Remove(posts, {post_id})
                 /\ comments' = Remove(comments, CommentsOf(post_id))
                 /\ resp' = Response(request, "302 Found", RedirectIndex)
                 /\ UNCHANGED <<categories, next_post_id, next_comment_id, now>>

\* add_comment: the comment saved for a valid form.
add_comment_save(user, post_id, form) ==
    [author |-> user, post |-> post_id, text |-> form.text]

add_comment(user, post_id) ==
    LET request == Request("add_comment", user, post_id, 0, "", <<>>)
    IN  IF ~is_authenticated(user)
        THEN /\ resp' = Response(request, "302 Found", RedirectLogin)
             /\ UNCHANGED <<db, now>>
        ELSE IF post_id \notin DOMAIN posts
        THEN /\ resp' = NotFound(request)
             /\ UNCHANGED <<db, now>>
        ELSE \E data \in Opt(CommentForms) :
            IF data /= <<>>
            THEN /\ RowsCreated < MaxRows
                 /\ comments' = Insert(comments, next_comment_id,
                        add_comment_save(user, post_id, data[1]))
                 /\ next_comment_id' = next_comment_id + 1
                 /\ resp' = Response(request, "302 Found",
                                     RedirectPostDetail(post_id))
                 /\ UNCHANGED <<posts, categories, next_post_id, now>>
            ELSE /\ resp' = Response(request, "302 Found",
                                     RedirectPostDetail(post_id))
                 /\ UNCHANGED <<db, now>>

\* CommentUpdateView.dispatch: the view's own check, before LoginRequiredMixin.
CommentUpdateView_is_author(user, comment) == ~(comment.author /= user)

CommentUpdateView(user, post_id, comment_id, forms) ==
    LET request == Request("edit_comment", user, post_id, comment_id, "", <<>>)
    IN  IF comment_id \notin DOMAIN comments
        THEN /\ resp' = NotFound(request)
             /\ UNCHANGED <<db, now>>
        ELSE IF ~CommentUpdateView_is_author(user, comments[comment_id])
        THEN /\ resp' = Response(request, "403 Forbidden", NoRedirect)
             /\ UNCHANGED <<db, now>>
        ELSE \E data \in Opt(forms) :
            IF data = <<>>
            THEN /\ resp' = Response(request, "200 OK", NoRedirect)
                 /\ UNCHANGED <<db, now>>
            ELSE /\ comments' = [comments EXCEPT
                                    ![comment_id] = CommentForm_save(@, data[1])]
                 /\ resp' = Response(request, "302 Found",
                                     RedirectPostDetail(comments[comment_id].post))
                 /\ UNCHANGED <<posts, categories, next_post_id,
                                next_comment_id, now>>

CommentDeleteView(user, post_id, comment_id) ==
    LET request == Request("delete_comment", user, post_id, comment_id, "", <<>>)
    IN  IF ~is_authenticated(user)
        THEN /\ resp' = EditMixin_handle_no_permission(request)
             /\ UNCHANGED <<db, now>>
        ELSE IF comment_id \notin DOMAIN comments
        THEN /\ resp' = NotFound(request)
             /\ UNCHANGED <<db, now>>
        ELSE IF ~EditMixin_test_func(user, comments[comment_id])
        THEN /\ resp' = EditMixin_handle_no_permission(request)
             /\ UNCHANGED <<db, now>>
        ELSE \E method \in Methods :
            IF method = "GET"
            THEN /\ resp' = Response(request, "200 OK", NoRedirect)
                 /\ UNCHANGED <<db, now>>
            ELSE /\ comments' = Remove(comments, {comment_id})
                 /\ resp' = Response(request, "302 Found",
                                     RedirectPostDetail(comments[comment_id].post))
                 /\ UNCHANGED <<posts, categories, next_post_id,
                                next_comment_id, now>>

\* ------------------------------------------------------- specifications
\* Ids a request may name: every row there is, and one that does not exist.
PostIds == DOMAIN posts \cup {next_post_id}
CommentIds == DOMAIN comments \cup {next_comment_id}
\* The post id in the URL of a comment view: the comment's post, or a wrong one.
UrlPostIds(comment_id) ==
    {comments[c].post : c \in DOMAIN comments \cap {comment_id}}
        \cup {next_post_id}

Init ==
    /\ posts = <<>>
    /\ comments = <<>>
    /\ categories = [c \in Categories |-> [is_published |-> c = "c1"]]
    /\ now = 0
    /\ next_post_id = 1
    /\ next_comment_id = 1
    /\ resp = NoResponse

CreatePost == \E u \in Viewers : PostCreateView(u)
EditPost == \E u \in Viewers, p \in PostIds : PostUpdateView(u, p, PostEditForms)
DeletePost == \E u \in Viewers, p \in PostIds : PostDeleteView(u, p)
AddComment == \E u \in Viewers, p \in PostIds : add_comment(u, p)
EditComment ==
    \E u \in Viewers, c \in CommentIds : \E p \in UrlPostIds(c) :
        CommentUpdateView(u, p, c, CommentEditForms)
DeleteComment ==
    \E u \in Viewers, c \in CommentIds : \E p \in UrlPostIds(c) :
        CommentDeleteView(u, p, c)

Next ==
    \/ CreatePost
    \/ EditPost
    \/ DeletePost
    \/ AddComment
    \/ EditComment
    \/ DeleteComment

Spec == Init /\ [][Next]_vars

\* The page views over a database that is already there: every table of at
\* most MaxRead posts, dated now or MaxTime ahead, one comment on post 1.
\* The two users are alike, so post 1 is taken to be u1's.
ReadDates == {0, MaxTime}
PostRows ==
    [author : Users, category : Categories, is_published : BOOLEAN,
     pub_date : ReadDates]
ReadForms ==
    [author : {"u1"}, category : {"c1"}, is_published : BOOLEAN,
     pub_date : {<<d>> : d \in ReadDates}]

InitRead ==
    /\ \E n \in 0..MaxRead :
        /\ posts \in [1..n -> PostRows]
        /\ n >= 1 => posts[1].author = "u1"
        /\ next_post_id = n + 1
        /\ comments = IF n = 0 THEN <<>>
                      ELSE <<[author |-> "u2", post |-> 1, text |-> "t1"]>>
        /\ next_comment_id = IF n = 0 THEN 1 ELSE 2
    /\ categories = [c \in Categories |-> [is_published |-> c = "c1"]]
    /\ now = 0
    /\ resp = NoResponse

Index == \E u \in Viewers : PostsListView(u, <<>>)
Detail == \E u \in Viewers, p \in PostIds : PostDetailView(u, p)
Category == \E u \in Viewers, c \in Slugs : category_posts(u, c, <<>>)
Profile == \E u \in Viewers, n \in Usernames : ProfileView(u, n, <<>>)
Reschedule == \E p \in DOMAIN posts : PostUpdateView(posts[p].author, p, ReadForms)

NextRead ==
    \/ Index
    \/ Detail
    \/ Category
    \/ Profile
    \/ Reschedule
    \/ Tick

SpecRead == InitRead /\ [][NextRead]_vars

\* The page views over a long table, page by page.
PageNumbers == Opt(0..MaxPage)

BulkRow(i) ==
    [author |-> IF i % 7 = 0 THEN "u2" ELSE "u1",
     category |-> IF i % 6 = 0 THEN "c2" ELSE "c1",
     is_published |-> i % 5 /= 0,
     pub_date |-> i % (MaxTime + 1)]

InitPage ==
    /\ \E n \in 0..MaxBulk :
        /\ posts = [i \in 1..n |-> BulkRow(i)]
        /\ next_post_id = n + 1
    /\ comments = <<>>
    /\ next_comment_id = 1
    /\ categories = [c \in Categories |-> [is_published |-> c = "c1"]]
    /\ now = 0
    /\ resp = NoResponse

IndexPage == \E u \in Viewers, n \in PageNumbers : PostsListView(u, n)
CategoryPage ==
    \E u \in Viewers, c \in Slugs, n \in PageNumbers : category_posts(u, c, n)
ProfilePage ==
    \E u \in Viewers, name \in Usernames, n \in PageNumbers : ProfileView(u, name, n)

NextPage ==
    \/ IndexPage
    \/ Detail
    \/ CategoryPage
    \/ ProfilePage
    \/ Tick

SpecPage == InitPage /\ [][NextPage]_vars

\* ================================================================ claims
\* What "published" means in the claims: the post's flag, its category's
\* flag, and a pub_date that is not later than the current time.
Published(p) ==
    /\ posts[p].is_published
    /\ categories[posts[p].category].is_published
    /\ posts[p].pub_date <= now

Ids(rows) == {rows[i].id : i \in 1..Len(rows)}
NoRepeats(rows) == Cardinality(Ids(rows)) = Len(rows)
AuthoredBy(username) == {p \in DOMAIN posts : posts[p].author = username}
InCategory(slug) == {p \in DOMAIN posts : posts[p].category = slug}

\* C2: get_annotated_posts(published_only=True), and so the index list,
\* returns exactly the posts of its input that are published (flag, category
\* flag, pub_date <= now); with published_only=False it returns every post of
\* the input, none dropped and none added.
C2_BuilderReturnsExactlyPublished ==
    /\ \A queryset \in SUBSET DOMAIN posts :
        LET filtered == get_annotated_posts(queryset, TRUE)
            all == get_annotated_posts(queryset, FALSE)
        IN  /\ Ids(filtered) = {p \in queryset : Published(p)}
            /\ NoRepeats(filtered)
            /\ Ids(all) = queryset
            /\ NoRepeats(all)
    /\ \A user \in Viewers :
        LET r == PostsListView_get(user, <<>>)
        IN  /\ r.status = "200 OK"
            /\ NoRepeats(r.object_list)
            /\ Ids(r.object_list) = {p \in DOMAIN posts : Published(p)}

\* An index response that shows one post and leaves out a post whose flag is
\* off and a post of another kind (two posts in the table, one shown).
C2_Witness ==
    /\ resp.request.view = "index"
    /\ resp.status = "200 OK"
    /\ Len(resp.object_list) = 1
    /\ \E p \in DOMAIN posts :
        /\ p \notin Ids(resp.object_list)
        /\ ~Published(p)
        /\ categories[posts[p].category].is_published = FALSE

\* C3: the detail view returns the post iff the viewer is its authenticated
\* author or the post is published; everyone else, anonymous included, gets
\* 404 and no post.
C3_DetailAuthorOrPublished ==
    \A user \in Viewers : \A post_id \in PostIds :
        LET r == PostDetailView_get(user, post_id)
        IN  IF /\ post_id \in DOMAIN posts
               /\ \/ user \in Users /\ user = posts[post_id].author
                  \/ Published(post_id)
            THEN r.status = "200 OK" /\ r.object = post_id
            ELSE r.status = "404 Not Found" /\ r.object = 0

\* A logged-in user who is not the author was answered 404 for a post that
\* is not published.
C3_Witness ==
    /\ resp.request.view = "post_detail"
    /\ resp.status = "404 Not Found"
    /\ resp.request.user \in Users
    /\ resp.request.post_id \in DOMAIN posts
    /\ posts[resp.request.post_id].author /= resp.request.user
    /\ ~Published(resp.request.post_id)

\* C4: the profile page of U lists only U's posts: all of them for U, and
\* exactly the published ones for every other viewer.
C4_ProfileLists ==
    \A user \in Viewers : \A username \in Users :
        LET r == ProfileView_get(user, username, <<>>)
        IN  /\ r.status = "200 OK"
            /\ NoRepeats(r.object_list)
            /\ Ids(r.object_list) =
                  IF user = username
                  THEN AuthoredBy(username)
                  ELSE {p \in AuthoredBy(username) : Published(p)}

\* The owner was shown a post of theirs that is not published.
C4_Witness ==
    /\ resp.request.view = "profile"
    /\ resp.status = "200 OK"
    /\ resp.request.user = resp.request.name
    /\ \E p \in Ids(resp.object_list) :
        /\ p \in DOMAIN posts
        /\ posts[p].author = resp.request.user
        /\ ~Published(p)
        /\ posts[p].pub_date > now

\* C5: the category page is 404 for a slug no category has and for a
\* category whose flag is off, whoever asks; otherwise it lists exactly the
\* posts of that category whose flag is on and whose pub_date <= now.
C5_CategoryPage ==
    \A user \in Viewers : \A slug \in Slugs :
        LET r == category_posts_get(user, slug, <<>>)
        IN  IF slug \notin DOMAIN categories \/ ~categories[slug].is_published
            THEN r.status = "404 Not Found" /\ r.object_list = <<>>
            ELSE /\ r.status = "200 OK"
                 /\ NoRepeats(r.object_list)
                 /\ Ids(r.object_list) =
                       {p \in InCategory(slug) :
                           posts[p].is_published /\ posts[p].pub_date <= now}

\* The page of a category whose flag is off was answered 404 although the
\* category holds a post whose own flag is on.
C5_Witness ==
    /\ resp.request.view = "category_posts"
    /\ resp.status = "404 Not Found"
    /\ resp.request.name \in DOMAIN categories
    /\ \E p \in InCategory(resp.request.name) :
        posts[p].is_published /\ posts[p].pub_date <= now

\* C10: a post whose flag and category flag are on is, while now < pub_date,
\* absent from the index, from its category page and from its author's
\* profile as others see it, and its detail page is 404 for every non-author;
\* every response served once now has reached pub_date shows it, whatever
\* happened in between (a tick of the clock is enough), and since the clock
\* never moves back it stays shown while the post and the categories stay as
\* they are.
Scheduled(p) ==
    posts[p].is_published /\ categories[posts[p].category].is_published

\* The posts a response of one of the four page views concerns, for a
\* viewer who is not their author.
Concerned(r) ==
    CASE r.request.view = "index" -> DOMAIN posts
      [] r.request.view = "category_posts" -> InCategory(r.request.name)
      [] r.request.view = "profile" ->
            IF r.request.user = r.request.name THEN {}
            ELSE AuthoredBy(r.request.name)
      [] r.request.view = "post_detail" ->
            {p \in DOMAIN posts \cap {r.request.post_id} :
                posts[p].author /= r.request.user}
      [] OTHER -> {}

Shows(r, p) ==
    IF r.request.view = "post_detail"
    THEN r.status = "200 OK" /\ r.object = p
    ELSE r.status = "200 OK" /\ p \in Ids(r.object_list)

C10_ScheduledPublication ==
    [][/\ (resp' /= resp /\ UNCHANGED <<db, now>>) =>
            \A p \in Concerned(resp') : Scheduled(p) =>
                (Shows(resp', p) <=> now >= posts[p].pub_date)
       /\ now' >= now
       /\ \A p \in DOMAIN posts :
            (Scheduled(p) /\ now >= posts[p].pub_date /\ p \in DOMAIN posts'
                /\ posts'[p] = posts[p] /\ categories' = categories)
            => now' >= posts'[p].pub_date
      ]_vars

\* The clock has moved, and an index response shows a post dated exactly now.
C10_Witness ==
    /\ now > 0
    /\ resp.request.view = "index"
    /\ resp.status = "200 OK"
    /\ \E p \in Ids(resp.object_list) :
        p \in DOMAIN posts /\ Scheduled(p) /\ posts[p].pub_date = now

\* The step serves a request and changes nothing but the response.
Served == resp' /= resp /\ UNCHANGED <<db, now>>

\* The query builder's result a list view is to show.
BuilderResult(request) ==
    CASE request.view = "index" -> get_annotated_posts(DOMAIN posts, TRUE)
      [] request.view = "category_posts" ->
            get_annotated_posts(InCategory(request.name), TRUE)
      [] request.view = "profile" ->
            get_annotated_posts(AuthoredBy(request.name),
                                request.user /= request.name)
      [] request.view = "post_detail" ->
            get_annotated_posts(DOMAIN posts \cap {request.post_id}, FALSE)

\* Rows (n-1)*10+1 .. n*10 of an ordered result, as far as it goes.
Segment(rows, n) ==
    LET first == (n - 1) * 10 + 1
        last == IF n * 10 <= Len(rows) THEN n * 10 ELSE Len(rows)
    IN  [i \in 1..(last - first + 1) |-> rows[first + i - 1]]

\* Page n of num_pages pages of the builder's result, at most 10 rows of it,
\* the pages together covering the result once.
PaginatedFromBuilder(r) ==
    LET rows == BuilderResult(r.request)
    IN  /\ r.paginated
        /\ r.number \in 1..r.num_pages
        /\ Len(r.object_list) <= 10
        /\ r.object_list = Segment(rows, r.number)
        /\ r.num_pages * 10 >= Len(rows)
        /\ r.num_pages > 1 => (r.num_pages - 1) * 10 < Len(rows)

\* C6 (as the spec has it): each of the four page views - list, detail,
\* category and profile - takes its posts from get_annotated_posts and
\* paginates them, at most 10 to a page, the pages in order being the
\* builder's ordered result with nothing repeated or skipped.
C6_AllFourViewsPaginate ==
    [][(Served /\ resp'.status = "200 OK"
            /\ resp'.request.view \in
                   {"index", "post_detail", "category_posts", "profile"})
        => PaginatedFromBuilder(resp')]_vars

\* C6 (amended): the list, category and profile views take their posts from
\* get_annotated_posts and paginate them as above; the detail view shows the
\* one post looked up by id, with no page and no builder row.
C6_ListViewsPaginate ==
    [][Served /\ resp'.status = "200 OK" =>
        /\ resp'.request.view \in {"index", "category_posts", "profile"}
               => PaginatedFromBuilder(resp')
        /\ resp'.request.view = "post_detail" =>
            /\ ~resp'.paginated
            /\ resp'.object_list = <<>>
            /\ resp'.object = resp'.request.post_id
      ]_vars

\* The owner was served page 3 of their profile: more than 20 posts.
C6_Witness ==
    /\ resp.request.view = "profile"
    /\ resp.status = "200 OK"
    /\ resp.number = 3
    /\ Len(resp.object_list) >= 1
    /\ Cardinality(AuthoredBy(resp.request.name)) > 20

\* The four update/delete views, and whether the request echoed in a
\* response names a row there is, and comes from that row's author.
PostEditViews == {"edit_post", "delete_post"}
CommentEditViews == {"edit_comment", "delete_comment"}
EditViews == PostEditViews \cup CommentEditViews

TargetExists(request) ==
    IF request.view \in PostEditViews
    THEN request.post_id \in DOMAIN posts
    ELSE request.comment_id \in DOMAIN comments

TargetAuthor(request) ==
    IF request.view \in PostEditViews
    THEN posts[request.post_id].author
    ELSE comments[request.comment_id].author

ByAuthor(request) ==
    TargetExists(request) /\ request.user = TargetAuthor(request)

PostTouched(p) == p \notin DOMAIN posts' \/ posts'[p] /= posts[p]
CommentTouched(c) == c \notin DOMAIN comments' \/ comments'[c] /= comments[c]

SuccessUrl(request) ==
    IF request.view \in PostEditViews
    THEN RedirectIndex
    ELSE RedirectPostDetail(comments[request.comment_id].post)

C7_SharedGuardSameOutcome ==
    [][LET request == resp'.request
       IN  (request.view \in EditViews /\ TargetExists(request)) =>
            IF request.user = TargetAuthor(request)
            THEN \/ resp'.status = "200 OK"
                 \/ resp'.status = "302 Found"
                        /\ resp'.redirect = SuccessUrl(request)
            ELSE /\ resp'.status = "302 Found"
                 /\ resp'.redirect = RedirectPostDetail(request.post_id)
      ]_vars

C9_NoCommentOnHiddenPost ==
    [][LET request == resp'.request
       IN  (/\ request.view = "add_comment"
            /\ request.post_id \in DOMAIN posts
            /\ PostDetailView_get(request.user, request.post_id).status
                   = "404 Not Found")
           => \A c \in DOMAIN comments' \ DOMAIN comments :
                  comments'[c].post /= request.post_id
      ]_vars

====
